---- MODULE Spec2Model ----
(***************************************************************************)
(* Booking-conflict and status-derivation logic of the TTM timetable       *)
(* application: the timetable table, the forms that write to it, the       *)
(* availability check they run first, and the status resolvers of the      *)
(* three views that display the bookings.                                  *)
(*                                                                         *)
(* Strings are sequences of character codes (ASCII), so that the string    *)
(* comparisons of the code (<, <=, >) are lexicographic comparisons here.  *)
(* Dates ('YYYY-MM-DD', fixed width) are day numbers: their string order   *)
(* is the order of the day numbers.                                        *)
(***************************************************************************)
EXTENDS Integers, Sequences, FiniteSets, TLC

(***************************************************************************)
(* Bounds of the model.                                                    *)
(***************************************************************************)
\* bookings ever created (timetable.id is a serial)
MaxId == 2
\* classrooms 1..MaxRoom; 0 stands for "no classroom" ('' in a form, NULL in a row)
MaxRoom == 1
\* dates 0..MaxDate
MaxDate == 0
\* the clock runs over the UTC days 0..MaxDay
MaxDay == 1
\* wall-clock times of the forms: slots 0..MaxSlot, see SlotMinute
MaxSlot == 2
\* rows of one CSV file
MaxCsvRows == 2
\* renders of a view between two changes of its inputs
MaxRenders == 2
\* length of a time string handed to getMinutes
MaxLen == 5
\* the booking forms open at the same time
MaxCallers == 2
\* seconds of the classroom display's clock
MaxSeconds == 600
\* changes of the classroom display's route
MaxParamChanges == 2
\* floors 1..MaxFloor of the building
MaxFloor == 2
\* classrooms ever created
MaxClassrooms == 3

Rooms == 1..MaxRoom
Dates == 0..MaxDate
Slots == 0..MaxSlot

\* the minute of day of a slot: 11:00, 12:00, 13:00, ... (the slots cross noon)
SlotMinute(k) == 660 + 60 * k

(***************************************************************************)
(* Strings.                                                                *)
(***************************************************************************)
\* two decimal digits, as padStart(2, '0') / '2-digit' print them
Pad2(n) == <<48 + (n \div 10), 48 + (n % 10)>>

\* 'HH:MM', the value of an <input type="time">
FmtHM(min) == Pad2(min \div 60) \o <<58>> \o Pad2(min % 60)

\* 'HH:MM:SS', the form in which the data service returns a time column
FmtHMS(sec) == Pad2(sec \div 3600) \o <<58>> \o Pad2((sec \div 60) % 60) \o <<58>> \o Pad2(sec % 60)

\* a < b on strings, as JavaScript compares them (code unit by code unit)
RECURSIVE StrLt(_, _)
StrLt(a, b) ==
    IF b = <<>> THEN FALSE
    ELSE IF a = <<>> THEN TRUE
    ELSE IF Head(a) # Head(b) THEN Head(a) < Head(b)
    ELSE StrLt(Tail(a), Tail(b))

StrLe(a, b) == a = b \/ StrLt(a, b)

\* String.prototype.split(sep) for a one-character separator
RECURSIVE split(_, _)
split(s, sep) ==
    IF s = <<>> THEN << <<>> >>
    ELSE LET rest == split(Tail(s), sep)
         IN  IF Head(s) = sep
             THEN << <<>> >> \o rest
             ELSE << <<Head(s)>> \o Head(rest) >> \o Tail(rest)

\* the number NaN; the strings of the model hold no sign, so that no number
\* the code computes from them is negative
NaN == -1

\* Number(s) for a string without whitespace, sign, point or exponent: its value
\* when it is made of decimal digits (Number('') is 0), NaN otherwise
RECURSIVE Number(_)
Number(s) ==
    IF s = <<>> THEN 0
    ELSE LET front == Number(SubSeq(s, 1, Len(s) - 1))
         IN  IF front = NaN \/ s[Len(s)] \notin 48..57
             THEN NaN
             ELSE front * 10 + (s[Len(s)] - 48)

\* const [hours, minutes] = time.split(':').map(Number); return hours * 60 + minutes
\* (a missing part is undefined, and hours * 60 + undefined is NaN; arithmetic
\* on NaN is NaN)
getMinutes(time) ==
    LET parts == split(time, 58)
        hours == Number(parts[1])
        mins == IF Len(parts) >= 2 THEN Number(parts[2]) ELSE NaN
    IN  IF hours = NaN \/ mins = NaN THEN NaN ELSE hours * 60 + mins

(***************************************************************************)
(* The data service: the timetable table.                                  *)
(***************************************************************************)
\* class_status.status, constrained by class_status_status_check
Statuses == {"scheduled", "ongoing", "delayed", "rescheduled", "canceled", "ended"}

\* input of a time column: 'HH:MM' or 'HH:MM:SS' to seconds since midnight
pgTimeIn(s) ==
    LET parts == split(s, 58)
    IN  Number(parts[1]) * 3600 + Number(parts[2]) * 60
        + (IF Len(parts) >= 3 THEN Number(parts[3]) ELSE 0)

\* a time column as the data service returns it
pgTime(s) == FmtHMS(pgTimeIn(s))

\* what a form field can hold: a value typed into an <input type="time">
FormTimes == {FmtHM(SlotMinute(k)) : k \in Slots}

\* the same times as the data service returns them, 'HH:MM:SS'
StoredTimes == {FmtHMS(60 * SlotMinute(k)) : k \in Slots}

\* getMinutes, pgTimeIn and pgTime tabulated over the time strings of the model
Minutes == [t \in FormTimes \cup StoredTimes |-> getMinutes(t)]
TimeValue == [t \in FormTimes \cup StoredTimes |-> pgTimeIn(t)]
Stored == [t \in FormTimes \cup StoredTimes |-> pgTime(t)]

VARIABLES
    timetable,   \* the rows of public.timetable: id -> row
    nextId,      \* the next value of the serial timetable.id
    last,        \* what the last handler did
    cls,         \* the booking a view resolves the status of
    now,         \* the clock: minutes since 00:00 UTC of day 0
    host,        \* the browser: its timezone offset and its hour cycle
    shown,       \* the statuses the views display for cls (for each row, on the room board)
    roomAvailability,  \* PublicTimetable's roomAvailability: room -> its flag and classes
    classrooms,  \* ClassroomDisplayTable's classrooms: room -> its status and sessions
    renders,     \* how many times the views rendered since the rows or the clock changed
    timeStr,     \* a time string handed to getMinutes
    parsed,      \* what getMinutes returned for timeStr
    forms,       \* the booking forms open at the same time: caller -> its handleSubmit
    clock,       \* the reference clock isClassPassed / isClassEnded computed
    live,        \* the open views' fetched rows and their pending notifications
    session,     \* AppRoutes' session: the signed-in user, 0 for null
    roleId,      \* AppRoutes' roleId, 0 for null
    lookups,     \* the role lookups in flight: the users they were issued for
    display,     \* ClassroomDisplayTable's timers and fetches
    classroomRows,   \* the rows of public.classrooms: id -> row
    classroomLast    \* what the last submission of the classroom form did

vars == <<timetable, nextId, last, cls, now, host, shown,
          roomAvailability, classrooms, renders, timeStr, parsed,
          forms, clock, live, session, roleId, lookups, display,
          classroomRows, classroomLast>>

storeVars == <<timetable, nextId, last>>
boardVars == <<roomAvailability, classrooms, renders>>
parseVars == <<timeStr, parsed>>
authVars == <<session, roleId, lookups>>
classroomVars == <<classroomRows, classroomLast>>
appVars == <<forms, clock, live, authVars, display, classroomVars>>
viewVars == <<cls, now, host, shown, boardVars, parseVars, appVars>>


(***************************************************************************)
(* The availability check (the admin form and the teacher form hold the    *)
(* same function).                                                         *)
(***************************************************************************)
\* return !(currentEnd <= existingStart || currentStart >= existingEnd), negation with <
overlaps_touching(currentStart, currentEnd, existingStart, existingEnd) ==
    ~(currentEnd < existingStart \/ currentStart > existingEnd)

\* return !(currentEnd <= existingStart || currentStart >= existingEnd)
overlaps(currentStart, currentEnd, existingStart, existingEnd) ==
    ~(currentEnd <= existingStart \/ currentStart >= existingEnd)

\* the query with a filter for the rows that lie within the proposed range
query_contained(tt, classroomId, startTime, endTime, date, currentEntryId) ==
    {id \in DOMAIN tt :
        /\ tt[id].classroom_id = classroomId
        /\ tt[id].date = date
        /\ TimeValue[tt[id].start_time] >= TimeValue[startTime]
        /\ TimeValue[tt[id].end_time] <= TimeValue[endTime]
        /\ (currentEntryId # 0 => id # currentEntryId)}

\* the query without .neq('id', currentEntryId)
query_noExclude(tt, classroomId, startTime, endTime, date, currentEntryId) ==
    {id \in DOMAIN tt :
        /\ tt[id].classroom_id = classroomId
        /\ tt[id].date = date
        /\ \/ TimeValue[tt[id].start_time] < TimeValue[endTime]
           \/ TimeValue[tt[id].end_time] > TimeValue[startTime]}

\* .from('timetable').select('*').eq('classroom_id', ..).eq('date', ..)
\*    .or('start_time.lt.<endTime>,end_time.gt.<startTime>') [.neq('id', currentEntryId)]
\* the ids of the rows the query returns
query(tt, classroomId, startTime, endTime, date, currentEntryId) ==
    {id \in DOMAIN tt :
        /\ tt[id].classroom_id = classroomId
        /\ tt[id].date = date
        /\ \/ TimeValue[tt[id].start_time] < TimeValue[endTime]
           \/ TimeValue[tt[id].end_time] > TimeValue[startTime]
        /\ (currentEntryId # 0 => id # currentEntryId)}

\* data?.some(booking => ...)
hasOverlap(tt, data, startTime, endTime) ==
    \E id \in data :
        overlaps(Minutes[startTime], Minutes[endTime],
                 Minutes[tt[id].start_time], Minutes[tt[id].end_time])

\* the check with a catch block that returns true
checkTimeSlotAvailability_optimistic(tt, classroomId, startTime, endTime, date, currentEntryId, readOk) ==
    IF ~readOk THEN TRUE
    ELSE ~hasOverlap(tt, query(tt, classroomId, startTime, endTime, date, currentEntryId),
                     startTime, endTime)

\* readOk: whether the read succeeds; a failed read throws into the catch block,
\* which returns false
checkTimeSlotAvailability(tt, classroomId, startTime, endTime, date, currentEntryId, readOk) ==
    IF ~readOk THEN FALSE
    ELSE ~hasOverlap(tt, query(tt, classroomId, startTime, endTime, date, currentEntryId),
                     startTime, endTime)


(***************************************************************************)
(* The handlers that write to the timetable.  Each is one action: the      *)
(* handlers run one at a time.  The writes of the data service succeed     *)
(* (a row that the columns' types accept is stored); its reads may fail.   *)
(***************************************************************************)
\* the start and end fields of a new form: both typed, or one or both left empty
FormPairs ==
    (FormTimes \X FormTimes)
    \cup {<< <<>>, <<>> >>, << <<>>, FmtHM(SlotMinute(0)) >>, << FmtHM(SlotMinute(0)), <<>> >>}

\* the fields of a form opened on a row: each holds the row's column as the data
\* service returned it ('HH:MM:SS') until the user types a new value
EditPairs(row) ==
    FormPairs
    \cup {<<row.start_time, e>> : e \in FormTimes \cup {row.end_time}}
    \cup {<<s, row.end_time>> : s \in FormTimes}

\* the statuses the status modal is used for in this model (it offers the six)
StatusInputs == {"canceled", "scheduled"}

\* the errors the handlers throw and put into setError, by the first words of
\* their messages (the two forms word the booked message differently)
ErrRequired == "Start time and end time are required"
ErrRange == "End time must be after start time"
ErrBooked == "This classroom is already booked"
ErrTeacher == "Teacher ID is not set"
ErrClassroom == "Please select a classroom."
ErrBackend == "error.message of the data service"

\* a row of public.timetable as the data service stores and returns it;
\* status is the joined class_status.status, "" when class_status_id is NULL
Row(classroomId, date, startTime, endTime, status) ==
    [classroom_id |-> classroomId, date |-> date,
     start_time |-> Stored[startTime], end_time |-> Stored[endTime],
     status |-> status]

\* the empty table
NoRows == [id \in {} |-> 0]

\* what a handler did: the availability reads it issued, whether the read
\* succeeded, what the check returned, whether it went on to write, its error
\* entryId is the row an edit is about; same tells that an edit submitted the
\* row's own classroom, date and times
Outcome(op, entryId, reads, readOk, avail, wrote, err) ==
    [op |-> op, entryId |-> entryId, same |-> FALSE, reads |-> reads,
     readOk |-> readOk, avail |-> avail, wrote |-> wrote, err |-> err]

\* TimetableForm.handleSubmit: the admin form, entryId = 0 for a new entry
handleSubmit(entryId, classroomId, selectedDate, startTime, endTime, readOk) ==
    LET required == startTime = <<>> \/ endTime = <<>>
        badRange == ~required /\ StrLe(endTime, startTime)
        checks == ~required /\ ~badRange /\ classroomId # 0
        isAvailable == checks /\ checkTimeSlotAvailability(timetable, classroomId,
                                     startTime, endTime, selectedDate, entryId, readOk)
        writes == ~required /\ ~badRange /\ (checks => isAvailable)
        err == IF required THEN ErrRequired
               ELSE IF badRange THEN ErrRange
               ELSE IF checks /\ ~isAvailable THEN ErrBooked
               ELSE ""
        same == /\ entryId # 0
                /\ ~required
                /\ timetable[entryId] = Row(classroomId, selectedDate, startTime, endTime,
                                            timetable[entryId].status)
    IN  /\ entryId = 0 => nextId <= MaxId
        /\ ~checks => readOk
        /\ last' = [Outcome("handleSubmit", entryId, IF checks THEN 1 ELSE 0,
                            readOk, isAvailable, writes, err) EXCEPT !.same = same]
        /\ IF writes
           THEN IF entryId # 0
                THEN /\ timetable' = [timetable EXCEPT ![entryId] =
                            Row(classroomId, selectedDate, startTime, endTime, @.status)]
                     /\ nextId' = nextId
                ELSE /\ timetable' = timetable @@
                            (nextId :> Row(classroomId, selectedDate, startTime, endTime, ""))
                     /\ nextId' = nextId + 1
           ELSE UNCHANGED <<timetable, nextId>>
        /\ UNCHANGED viewVars

\* the admin opens the form for a new entry and submits it
AdminAdd ==
    \E classroomId \in {0} \cup Rooms, selectedDate \in Dates, times \in FormPairs,
       readOk \in BOOLEAN :
        handleSubmit(0, classroomId, selectedDate, times[1], times[2], readOk)

\* the admin opens the form on an entry (fetchEntry loads its columns into the
\* fields), changes some fields and submits it
AdminEdit ==
    \E entryId \in DOMAIN timetable :
    \E classroomId \in {0} \cup Rooms, selectedDate \in Dates,
       times \in EditPairs(timetable[entryId]), readOk \in BOOLEAN :
        handleSubmit(entryId, classroomId, selectedDate, times[1], times[2], readOk)

\* TeacherTimetableForm.handleSubmit: teacherId = 0 when fetchTeacherId found none
teacherHandleSubmit(teacherId, classroomId, selectedDate, startTime, endTime, readOk) ==
    LET required == startTime = <<>> \/ endTime = <<>>
        checks == teacherId # 0 /\ ~required /\ classroomId # 0
        isAvailable == checks /\ checkTimeSlotAvailability(timetable, classroomId,
                                     startTime, endTime, selectedDate, 0, readOk)
        err == IF teacherId = 0 THEN ErrTeacher
               ELSE IF required THEN ErrRequired
               ELSE IF classroomId = 0 THEN ErrClassroom
               ELSE IF ~isAvailable THEN ErrBooked
               ELSE ""
    IN  /\ nextId <= MaxId
        /\ ~checks => readOk
        /\ last' = Outcome("teacherHandleSubmit", 0, IF checks THEN 1 ELSE 0,
                           readOk, isAvailable, isAvailable, err)
        /\ IF isAvailable
           THEN /\ timetable' = timetable @@
                       (nextId :> Row(classroomId, selectedDate, startTime, endTime, ""))
                /\ nextId' = nextId + 1
           ELSE UNCHANGED <<timetable, nextId>>
        /\ UNCHANGED viewVars

\* a teacher submits the form; without a teacher id the fields do not matter
TeacherAdd ==
    \E teacherId \in {0, 1}, classroomId \in {0} \cup Rooms, selectedDate \in Dates,
       times \in FormPairs, readOk \in BOOLEAN :
        /\ teacherId = 0 => classroomId = 0 /\ selectedDate = 0 /\ times = << <<>>, <<>> >>
        /\ teacherHandleSubmit(teacherId, classroomId, selectedDate, times[1], times[2],
                               readOk)

\* the rows of a CSV file, in the columns processCSVUpload reads
CsvRow == [classroom_id : {0} \cup Rooms, date : Dates,
           start_time : FormTimes, end_time : FormTimes]

CsvFiles == UNION {[1..n -> CsvRow] : n \in 1..MaxCsvRows}

\* TeacherTimetableForm.processCSVUpload: the rows are formatted and inserted in
\* one insert, without an availability check
processCSVUpload(rows) ==
    LET formattedRows == [i \in 1..Len(rows) |->
            Row(rows[i].classroom_id, rows[i].date, rows[i].start_time,
                rows[i].end_time, "")]
    IN  /\ nextId + Len(rows) - 1 <= MaxId
        /\ last' = Outcome("processCSVUpload", 0, 0, TRUE, FALSE, TRUE, "")
        /\ timetable' = timetable @@
               [id \in nextId..(nextId + Len(rows) - 1) |-> formattedRows[id - nextId + 1]]
        /\ nextId' = nextId + Len(rows)
        /\ UNCHANGED viewVars

CsvUpload ==
    \E rows \in CsvFiles : processCSVUpload(rows)

\* TeacherDashboard.handleEditClass: the edit modal's form data (class name, start
\* time, end time, date) is written to the row of editingClass; the time columns
\* refuse an empty string
handleEditClass(editingClass, startTime, endTime, date) ==
    LET ok == startTime # <<>> /\ endTime # <<>>
    IN  /\ last' = Outcome("handleEditClass", editingClass, 0, TRUE, FALSE, TRUE,
                           IF ok THEN "" ELSE ErrBackend)
        /\ IF ok
           THEN timetable' = [timetable EXCEPT ![editingClass] =
                    Row(@.classroom_id, date, startTime, endTime, @.status)]
           ELSE UNCHANGED timetable
        /\ UNCHANGED <<nextId, viewVars>>

\* the teacher opens the edit modal on a class (its columns fill the form),
\* changes some fields and saves
TeacherEdit ==
    \E editingClass \in DOMAIN timetable :
    \E times \in EditPairs(timetable[editingClass]), date \in Dates :
        handleEditClass(editingClass, times[1], times[2], date)

\* TeacherDashboard.updateClassStatus: getStatusId, then the update of class_status_id
updateClassStatus(classId, statusName) ==
    /\ last' = Outcome("updateClassStatus", 0, 0, TRUE, FALSE, TRUE, "")
    /\ timetable' = [timetable EXCEPT ![classId].status = statusName]
    /\ UNCHANGED <<nextId, viewVars>>

StatusUpdate ==
    \E classId \in DOMAIN timetable, statusName \in StatusInputs :
        updateClassStatus(classId, statusName)

\* handleDelete of the teacher dashboard and of the admin timetable page
handleDelete(classId) ==
    /\ last' = Outcome("handleDelete", 0, 0, TRUE, FALSE, TRUE, "")
    /\ timetable' = [id \in DOMAIN timetable \ {classId} |-> timetable[id]]
    /\ UNCHANGED <<nextId, viewVars>>

Delete ==
    \E classId \in DOMAIN timetable : handleDelete(classId)

\* handleCleanupTimetable of the admin timetable page: delete().neq('id', 0)
handleCleanupTimetable ==
    /\ last' = Outcome("handleCleanupTimetable", 0, 0, TRUE, FALSE, TRUE, "")
    /\ timetable' = NoRows
    /\ UNCHANGED <<nextId, viewVars>>

(***************************************************************************)
(* Clocks and time formatting of the views.  now is the UTC instant in     *)
(* minutes; host.offset is the browser's timezone offset in minutes east   *)
(* of UTC; host.h24 tells whether the browser prints the hour after        *)
(* midnight as 24 when asked for hour12: false (engines differ).           *)
(***************************************************************************)
\* const istOffset = 330 * 60 * 1000, in minutes
istOffset == 330

\* timeZone: 'Asia/Kolkata', minutes east of UTC
AsiaKolkata == 330

Hosts == [offset : {0, 330}, h24 : BOOLEAN]

\* new Date().toISOString().split('T')[0]: the UTC date
utcToday(t) == t \div 1440

\* new Date(now.getTime() + istOffset).toISOString().split('T')[0]
todayIST(t) == (t + istOffset) \div 1440

\* toLocaleTimeString('en-US', {hour: '2-digit', minute: '2-digit', hour12: true}):
\* 'hh:mm AM' or 'hh:mm PM' of a minute of day
Fmt12(min) ==
    LET h == min \div 60
        h12 == IF h % 12 = 0 THEN 12 ELSE h % 12
    IN  Pad2(h12) \o <<58>> \o Pad2(min % 60) \o <<32>>
        \o (IF h < 12 THEN <<65, 77>> ELSE <<80, 77>>)

\* toLocaleTimeString('en-US', {hour: '2-digit', minute: '2-digit', hour12: false})
Fmt24(min, h24) ==
    LET h == min \div 60
    IN  Pad2(IF h = 0 /\ h24 THEN 24 ELSE h) \o <<58>> \o Pad2(min % 60)

\* timeUtils.getCurrentISTTime
getCurrentISTTime(t) == Fmt12((t + AsiaKolkata) % 1440)

\* timeUtils.getCurrentISTDate: the date in Asia/Kolkata
getCurrentISTDate(t) == (t + AsiaKolkata) \div 1440

\* timeUtils.convertToIST: setHours(hours, minutes) in the host's timezone, printed
\* in Asia/Kolkata
convertToIST(time, h) ==
    LET parts == split(time, 58)
        local == Number(parts[1]) * 60 + Number(parts[2])
    IN  Fmt12((local - h.offset + AsiaKolkata + 1440) % 1440)

(***************************************************************************)
(* The status resolvers.                                                   *)
(***************************************************************************)
\* TeacherDashboard.getClassStatus
getClassStatus(c, t, h) ==
    IF c.status # "" THEN c.status
    ELSE LET currentTime == getCurrentISTTime(t)
             today == utcToday(t)
         IN  IF c.date < today THEN "ended"
             ELSE IF c.date = today /\ StrLt(convertToIST(c.end_time, h), currentTime)
                  THEN "ended"
             ELSE IF /\ c.date = today
                     /\ StrLe(convertToIST(c.start_time, h), currentTime)
                     /\ StrLe(currentTime, convertToIST(c.end_time, h))
                  THEN "ongoing"
             ELSE "scheduled"

\* PublicTimetable.getStatusDisplay: the clock is printed 'HH:MM:SS'
getStatusDisplay(entry, t, h) ==
    LET currentTimeIST == Fmt24((t + AsiaKolkata) % 1440, h.h24) \o <<58, 48, 48>>
        status == IF entry.status # "" THEN entry.status ELSE "scheduled"
    IN  IF status = "ongoing" /\ StrLt(entry.end_time, currentTimeIST)
        THEN "ended"
        ELSE status

\* the admin timetable page's isClassEnded
isClassEnded(endTime, t) ==
    LET istNow == t + istOffset
        currentTimeInMinutes == ((istNow \div 60) % 24) * 60 + (istNow % 60)
    IN  currentTimeInMinutes > getMinutes(endTime)

\* the admin timetable page's isClassActive
isClassActive(startTime, endTime, t, h) ==
    LET currentTime == getCurrentISTTime(t)
    IN  /\ StrLe(convertToIST(startTime, h), currentTime)
        /\ StrLe(currentTime, convertToIST(endTime, h))

\* the admin timetable page's getClassStatus; it returns display labels
adminGetClassStatus(entry, t, h) ==
    IF entry.status = "Cancelled" THEN "Cancelled"
    ELSE IF entry.status = "Rescheduled" THEN "Rescheduled"
    ELSE IF isClassEnded(entry.end_time, t) THEN "Ended"
    ELSE IF isClassActive(entry.start_time, entry.end_time, t, h) THEN "In Progress"
    ELSE "Scheduled"

\* the status a display label of the admin page stands for
StatusOfLabel(label) ==
    CASE label = "Cancelled" -> "canceled"
      [] label = "Rescheduled" -> "rescheduled"
      [] label = "Ended" -> "ended"
      [] label = "In Progress" -> "ongoing"
      [] label = "Scheduled" -> "scheduled"

\* what the three views display for a booking at an instant
Render(c, t, h) ==
    [dashboard |-> getClassStatus(c, t, h),
     public |-> getStatusDisplay(c, t, h),
     admin |-> StatusOfLabel(adminGetClassStatus(c, t, h))]


(***************************************************************************)
(* The room boards: PublicTimetable.updateRoomAvailability and             *)
(* ClassroomDisplayTable.fetchClassrooms.  A class is the id of its row;   *)
(* 0 stands for undefined / null.  The data service returns rows of equal  *)
(* start_time in the order of their ids.                                   *)
(***************************************************************************)
\* the rows of a classroom and date, sorted by start_time:
\* .sort((a, b) => a.start_time.localeCompare(b.start_time)), a stable sort
RECURSIVE sortByStart(_, _)
sortByStart(tt, ids) ==
    IF ids = {} THEN <<>>
    ELSE LET first == CHOOSE a \in ids : \A b \in ids \ {a} :
                          \/ StrLt(tt[a].start_time, tt[b].start_time)
                          \/ tt[a].start_time = tt[b].start_time /\ a < b
         IN  <<first>> \o sortByStart(tt, ids \ {first})

\* the room as updateRoomAvailability initializes it
NoRoom == [isAvailable |-> TRUE, currentClass |-> 0, nextClass |-> 0,
           foundCurrent |-> FALSE]

\* the body of the loop  for (const entry of roomClasses)
roomStep(room, tt, entry, currentTimeIST) ==
    LET status == tt[entry].status
        isAfterStart == StrLe(tt[entry].start_time, currentTimeIST)
        isBeforeEnd == StrLe(currentTimeIST, tt[entry].end_time)
    IN  IF status = "cancelled"
        THEN [room EXCEPT !.isAvailable = TRUE, !.currentClass = entry]
        ELSE IF isAfterStart /\ isBeforeEnd
        THEN IF status \notin {"rescheduled", "ended", "delayed"}
             THEN [room EXCEPT !.foundCurrent = TRUE, !.isAvailable = FALSE,
                               !.currentClass = entry]
             ELSE IF room.currentClass = 0
                  THEN [room EXCEPT !.currentClass = entry]
                  ELSE room
        ELSE IF StrLt(currentTimeIST, tt[entry].start_time)
        THEN IF room.nextClass = 0 THEN [room EXCEPT !.nextClass = entry] ELSE room
        ELSE room

RECURSIVE roomLoop(_, _, _, _)
roomLoop(room, tt, roomClasses, currentTimeIST) ==
    IF roomClasses = <<>> THEN room
    ELSE roomLoop(roomStep(room, tt, Head(roomClasses), currentTimeIST),
                  tt, Tail(roomClasses), currentTimeIST)

\* PublicTimetable.updateRoomAvailability on the classes fetchTimetable fetched
\* for selectedDate; the clock is printed 'HH:MM'
updateRoomAvailability(tt, selectedDate, t, h) ==
    LET currentTimeIST == Fmt24((t + AsiaKolkata) % 1440, h.h24)
    IN  [r \in Rooms |->
            LET roomClasses == sortByStart(tt,
                    {id \in DOMAIN tt : tt[id].classroom_id = r /\ tt[id].date = selectedDate})
                room == roomLoop(NoRoom, tt, roomClasses, currentTimeIST)
            IN  [room EXCEPT !.isAvailable = IF room.foundCurrent THEN @ ELSE TRUE]]

\* ClassroomDisplayTable.isTimeInRange
isTimeInRange(currentTime, startTime, endTime) ==
    LET current0 == getMinutes(currentTime)
        start == getMinutes(startTime)
        end0 == getMinutes(endTime)
        wraps == end0 < start
        end == IF wraps THEN end0 + 24 * 60 ELSE end0
        current == IF wraps /\ current0 < start THEN current0 + 24 * 60 ELSE current0
    IN  current >= start /\ current <= end

\* time.split(':').slice(0, 2).join(':')
normalizeTime(time) ==
    LET parts == split(time, 58)
    IN  parts[1] \o <<58>> \o parts[2]

\* todaysSessions.find(entry => isTimeInRange(...)): the first session in range
currentSessionOf(tt, todaysSessions, currentTimeString) ==
    LET inRange == SelectSeq(todaysSessions, LAMBDA e :
                       isTimeInRange(normalizeTime(currentTimeString),
                                     normalizeTime(tt[e].start_time),
                                     normalizeTime(tt[e].end_time)))
    IN  IF inRange = <<>> THEN 0 ELSE Head(inRange)

\* upcomingSessions[0] || null: the first session that starts after the clock
\* (new Date('1970/01/01 ' + time) compares as seconds of the day) and is not
\* the current session
nextClassInfoOf(tt, todaysSessions, currentSession, localMinute) ==
    LET upcomingSessions == SelectSeq(todaysSessions, LAMBDA e :
                       /\ TimeValue[tt[e].start_time] > localMinute * 60
                       /\ e # currentSession)
    IN  IF upcomingSessions = <<>> THEN 0 ELSE Head(upcomingSessions)

\* the switch on the current session's status, and the 15-minute 'upcoming' rule
classroomStatus(tt, currentSession, nextClassInfo, localMinute) ==
    IF currentSession # 0
    THEN IF tt[currentSession].status \in {"canceled", "ended", "rescheduled", "delayed"}
         THEN tt[currentSession].status
         ELSE "in-session"
    ELSE IF nextClassInfo = 0 THEN "available"
    ELSE IF TimeValue[tt[nextClassInfo].start_time] - localMinute * 60 <= 15 * 60
         THEN "upcoming"
         ELSE "available"

\* one classroom of data.map(classroom => ...)
processedClassroom(tt, todaysSessions, currentSession, localMinute) ==
    LET nextClassInfo == nextClassInfoOf(tt, todaysSessions, currentSession, localMinute)
    IN  [status |-> classroomStatus(tt, currentSession, nextClassInfo, localMinute),
         classInfo |-> currentSession,
         nextClassInfo |-> nextClassInfo]

\* ClassroomDisplayTable.fetchClassrooms, the processing of the rows: today is
\* the UTC date, the clock is the host's local time printed 'HH:MM' (en-GB)
fetchClassrooms(tt, t, h) ==
    [r \in Rooms |->
        LET todaysSessions == sortByStart(tt,
                {id \in DOMAIN tt : tt[id].classroom_id = r /\ tt[id].date = utcToday(t)})
        IN  processedClassroom(tt, todaysSessions,
                currentSessionOf(tt, todaysSessions, Fmt24((t + h.offset) % 1440, FALSE)),
                (t + h.offset) % 1440)]

\* what the views display for each row of the table at an instant
RenderAll(tt, t, h) == [id \in DOMAIN tt |-> Render(tt[id], t, h)]


(***************************************************************************)
(* The views: a booking on display, re-rendered on every timer tick and on *)
(* every change notification of the data service.                          *)
(***************************************************************************)
\* the rows a view can hold
StoredRows == [classroom_id : Rooms, date : Dates,
               start_time : StoredTimes, end_time : StoredTimes,
               status : Statuses \cup {""}]

\* setInterval(() => setCurrentTime(...), 60000), seen every half hour
Tick ==
    /\ now + 30 < (MaxDay + 1) * 1440
    /\ now' = now + 30
    /\ shown' = Render(cls, now', host)
    /\ UNCHANGED <<cls, host, storeVars, boardVars, parseVars, appVars>>

\* updateClassStatus on the booking, then the postgres_changes notification:
\* the view fetches the row again and renders it
StatusChanged ==
    \E statusName \in Statuses :
        /\ cls' = [cls EXCEPT !.status = statusName]
        /\ shown' = Render(cls', now, host)
        /\ UNCHANGED <<now, host, storeVars, boardVars, parseVars, appVars>>

\* the date PublicTimetable opens on: useState(getCurrentISTDate()), at instant 0
selectedDate == getCurrentISTDate(0)

\* the bookings the boards are opened on: rows whose end is after their start
RoomTables ==
    LET rows == {r \in StoredRows : TimeValue[r.start_time] < TimeValue[r.end_time]}
    IN  UNION {[1..n -> rows] : n \in 0..MaxId}

\* the views render the table again, and a next class that was on display
\* before is not shown a second time
Board_showNextOnce(tt, t, h) ==
    /\ shown' = RenderAll(tt, t, h)
    /\ roomAvailability' =
           [r \in Rooms |->
               LET room == updateRoomAvailability(tt, selectedDate, t, h)[r]
               IN  IF room.nextClass # 0 /\ room.nextClass = roomAvailability[r].nextClass
                   THEN [room EXCEPT !.nextClass = 0]
                   ELSE room]
    /\ classrooms' = fetchClassrooms(tt, t, h)

\* the views render the table again: shown, roomAvailability and classrooms
Board(tt, t, h) ==
    /\ shown' = RenderAll(tt, t, h)
    /\ roomAvailability' = updateRoomAvailability(tt, selectedDate, t, h)
    /\ classrooms' = fetchClassrooms(tt, t, h)

\* an hour passes: the timers fire, the boards fetch and render
RoomTick ==
    /\ now + 60 < MaxDay * 1440
    /\ now' = now + 60
    /\ Board(timetable, now', host)
    /\ renders' = 1
    /\ UNCHANGED <<timetable, nextId, last, cls, host, parseVars, appVars>>

\* updateClassStatus on a booking, then the postgres_changes notification: the
\* boards fetch and render
RoomStatusChanged ==
    \E classId \in DOMAIN timetable, statusName \in Statuses :
        /\ timetable' = [timetable EXCEPT ![classId].status = statusName]
        /\ Board(timetable', now, host)
        /\ renders' = 1
        /\ UNCHANGED <<nextId, last, cls, now, host, parseVars, appVars>>

\* a timer or a manual refresh within the same minute, nothing having changed:
\* the boards fetch the same rows and render them again
Rerender ==
    /\ renders < MaxRenders
    /\ renders' = renders + 1
    /\ Board(timetable, now, host)
    /\ UNCHANGED <<storeVars, cls, now, host, parseVars, appVars>>

\* the characters of the time strings: '1', '2', '7', ':', 'a'
Alphabet == {49, 50, 55, 58, 97}

TimeStrings == UNION {[1..n -> Alphabet] : n \in 0..MaxLen}

\* getMinutes is called on timeStr; it has no throw statement
Normalize ==
    /\ ~parsed.called
    /\ parsed' = [called |-> TRUE, threw |-> FALSE, value |-> getMinutes(timeStr)]
    /\ UNCHANGED <<storeVars, cls, now, host, shown, boardVars, timeStr, appVars>>

(***************************************************************************)
(* Booking forms open at the same time.  handleSubmit is an async          *)
(* function: it runs to its first await (the availability read), the read  *)
(* returns, and it runs on to its end (the write).  Between the steps of   *)
(* one caller the steps of another may run.                                *)
(***************************************************************************)
\* the admins with a TimetableForm open on a new entry
Callers == 1..MaxCallers

\* the state of a form: the fields, the React state handleSubmit sets, and where
\* handleSubmit stands (pc) with the constant isAvailable it holds
IdleForm ==
    [pc |-> "idle", classroomId |-> 0, selectedDate |-> 0,
     startTime |-> <<>>, endTime |-> <<>>, isAvailable |-> FALSE,
     loading |-> FALSE, error |-> "", success |-> ""]

NoForms == [c \in Callers |-> IdleForm]

\* the handleSubmit calls that have not run to their end
InFlight == {c \in Callers : forms[c].pc \in {"checking", "checked", "writing"}}

\* handleSubmit up to its first await: setLoading, setError(null), setSuccess(null),
\* the two validations, and the call of the check when a classroom is selected
submitBegin(c, classroomId, date, startTime, endTime) ==
    LET required == startTime = <<>> \/ endTime = <<>>
        badRange == ~required /\ StrLe(endTime, startTime)
        f == [IdleForm EXCEPT !.classroomId = classroomId, !.selectedDate = date,
                              !.startTime = startTime, !.endTime = endTime]
    IN  /\ forms[c].pc \in {"idle", "done"}
        /\ nextId + Cardinality(InFlight) <= MaxId
        /\ forms' = [forms EXCEPT ![c] =
               IF required THEN [f EXCEPT !.pc = "done", !.error = ErrRequired]
               ELSE IF badRange THEN [f EXCEPT !.pc = "done", !.error = ErrRange]
               ELSE IF classroomId # 0 THEN [f EXCEPT !.pc = "checking", !.loading = TRUE]
               ELSE [f EXCEPT !.pc = "writing", !.loading = TRUE]]
        /\ UNCHANGED <<storeVars, cls, now, host, shown, boardVars, parseVars,
                       clock, live, authVars, display, classroomVars>>

SubmitBegin ==
    \E c \in Callers, classroomId \in {0} \cup Rooms, date \in Dates,
       times \in FormPairs :
        submitBegin(c, classroomId, date, times[1], times[2])

\* a check that reports a booked slot to the form by itself
checkReturns_setsError(f, result) ==
    [f EXCEPT !.pc = "checked", !.isAvailable = result,
              !.error = IF result THEN @ ELSE ErrBooked]

\* what a call of checkTimeSlotAvailability leaves in its caller: the value it
\* returned; it sets no state of the form (it logs to the console)
checkReturns(f, result) ==
    [f EXCEPT !.pc = "checked", !.isAvailable = result]

\* checkTimeSlotAvailability runs for caller c: the read of the table and the
\* overlap test over the rows read
CheckRuns ==
    \E c \in Callers, readOk \in BOOLEAN :
        /\ forms[c].pc = "checking"
        /\ forms' = [forms EXCEPT ![c] =
               checkReturns(@, checkTimeSlotAvailability(timetable, @.classroomId,
                                @.startTime, @.endTime, @.selectedDate, 0, readOk))]
        /\ UNCHANGED <<storeVars, cls, now, host, shown, boardVars, parseVars,
                       clock, live, authVars, display, classroomVars>>

\* a timetable table with an exclusion constraint over (classroom_id, date, time range)
insertAccepted_exclusion(tt, entry) ==
    \A id \in DOMAIN tt :
        ~ /\ tt[id].classroom_id = entry.classroom_id
          /\ tt[id].classroom_id # 0
          /\ tt[id].date = entry.date
          /\ tt[id].status # "canceled"
          /\ overlaps(Minutes[entry.start_time], Minutes[entry.end_time],
                      Minutes[tt[id].start_time], Minutes[tt[id].end_time])

\* public.timetable has a primary key and foreign keys, and no constraint over
\* the rows of a classroom: the insert of a row of valid columns is accepted
insertAccepted(tt, entry) == TRUE

\* handleSubmit from the return of the check to its end: the throw on a booked
\* slot, or the insert; catch sets the error, finally clears loading
SubmitEnd ==
    \E c \in Callers :
        LET f == forms[c]
            entry == Row(f.classroomId, f.selectedDate, f.startTime, f.endTime, "")
            booked == f.pc = "checked" /\ ~f.isAvailable
            accepted == insertAccepted(timetable, entry)
        IN  /\ f.pc \in {"checked", "writing"}
            /\ forms' = [forms EXCEPT ![c] =
                   [f EXCEPT !.pc = "done", !.loading = FALSE,
                             !.error = IF booked THEN ErrBooked
                                       ELSE IF ~accepted THEN ErrBackend ELSE "",
                             !.success = IF ~booked /\ accepted
                                         THEN "Class added successfully!" ELSE ""]]
            /\ IF ~booked /\ accepted
               THEN /\ timetable' = timetable @@ (nextId :> entry)
                    /\ nextId' = nextId + 1
               ELSE UNCHANGED <<timetable, nextId>>
            /\ last' = Outcome("handleSubmit", 0, IF f.pc = "checked" THEN 1 ELSE 0,
                               TRUE, f.isAvailable, ~booked /\ accepted,
                               forms'[c].error)
            /\ UNCHANGED <<cls, now, host, shown, boardVars, parseVars,
                           clock, live, authVars, display, classroomVars>>


(***************************************************************************)
(* The reference clock of isClassPassed (teacher dashboard) and of         *)
(* isClassEnded (admin timetable page).                                    *)
(***************************************************************************)
\* a clock that takes the minute from the shifted instant and the date from
\* new Date().toISOString()
referenceClock_utcDate(t) ==
    LET istNow == t + istOffset
    IN  [currentTimeInMinutes |-> ((istNow \div 60) % 24) * 60 + (istNow % 60),
         todayIST |-> t \div 1440]

\* istNow = new Date(now.getTime() + istOffset); currentHours = istNow.getUTCHours(),
\* currentMinutes = istNow.getUTCMinutes(), todayIST = istNow.toISOString().split('T')[0]
referenceClock(t) ==
    LET istNow == t + istOffset
    IN  [currentTimeInMinutes |-> ((istNow \div 60) % 24) * 60 + (istNow % 60),
         todayIST |-> istNow \div 1440]

\* TeacherDashboard.isClassPassed
isClassPassed(c, t) ==
    LET ref == referenceClock(t)
    IN  IF c.date < ref.todayIST THEN TRUE
        ELSE c.date = ref.todayIST /\ ref.currentTimeInMinutes > getMinutes(c.end_time)

\* no view has read the clock
NoClock == [called |-> FALSE, currentTimeInMinutes |-> 0, todayIST |-> 0, passed |-> FALSE]

\* the dashboard filters its classes: isClassPassed runs on cls at the instant now
ClockRead ==
    /\ ~clock.called
    /\ clock' = [called |-> TRUE,
                 currentTimeInMinutes |-> referenceClock(now).currentTimeInMinutes,
                 todayIST |-> referenceClock(now).todayIST,
                 passed |-> isClassPassed(cls, now)]
    /\ UNCHANGED <<storeVars, cls, now, host, shown, boardVars, parseVars,
                   forms, live, authVars, display, classroomVars>>


(***************************************************************************)
(* The open views and the change notifications.  The teacher dashboard,    *)
(* the public timetable and the classroom display are open at instant now; *)
(* a write to public.timetable queues a postgres_changes notification for  *)
(* each view that subscribed.  The classes belong to the signed-in teacher.*)
(***************************************************************************)
\* the dates the dashboard's filters name: todayIST and tomorrowIST
LiveDates == {todayIST(now), todayIST(now) + 1}

\* the rows of a date, as a fetch returns them
rowsOn(tt, date) ==
    [id \in {i \in DOMAIN tt : tt[i].date = date} |-> tt[id]]

\* TeacherDashboard.fetchAssignedClasses with the activeFilter of its closure
fetchAssignedClasses(tt, activeFilter, t) ==
    IF activeFilter = "today" THEN rowsOn(tt, todayIST(t))
    ELSE rowsOn(tt, todayIST(t) + 1)

\* PublicTimetable.fetchTimetable: the rows of selectedDate
fetchTimetable(tt) == rowsOn(tt, selectedDate)

\* ClassroomDisplayTable.fetchClassrooms reads the rows of today, the UTC date
fetchTodaysRows(tt, t) == rowsOn(tt, utcToday(t))

\* the views after their first fetch of an empty table; subscribedFilter is the
\* activeFilter in the closure of the callback the dashboard subscribed with (the
\* subscription effect depends on teacherId alone)
ViewsOpen ==
    [activeFilter |-> "today", subscribedFilter |-> "today",
     assignedClasses |-> NoRows, dashPending |-> FALSE,
     publicRows |-> NoRows, publicPending |-> FALSE,
     displayRows |-> NoRows]

\* the data service queues the notification of a change of public.timetable for
\* the two subscribers; the classroom display does not subscribe
notified(l) == [l EXCEPT !.dashPending = TRUE, !.publicPending = TRUE]

\* a form inserts a class of the teacher
LiveInsert ==
    \E date \in LiveDates :
        /\ nextId <= MaxId
        /\ timetable' = timetable @@
               (nextId :> Row(1, date, FmtHM(SlotMinute(0)), FmtHM(SlotMinute(1)), ""))
        /\ nextId' = nextId + 1
        /\ last' = Outcome("handleSubmit", 0, 1, TRUE, TRUE, TRUE, "")
        /\ live' = notified(live)
        /\ UNCHANGED <<cls, now, host, shown, boardVars, parseVars,
                       forms, clock, authVars, display, classroomVars>>

\* updateClassStatus writes class_status_id of a row
LiveStatusUpdate ==
    \E classId \in DOMAIN timetable, statusName \in StatusInputs :
        /\ timetable' = [timetable EXCEPT ![classId].status = statusName]
        /\ last' = Outcome("updateClassStatus", 0, 0, TRUE, FALSE, TRUE, "")
        /\ live' = notified(live)
        /\ UNCHANGED <<nextId, cls, now, host, shown, boardVars, parseVars,
                       forms, clock, authVars, display, classroomVars>>

\* the teacher clicks a filter button: the effect on [teacherId, activeFilter]
\* fetches with the new filter
SetActiveFilter ==
    \E f \in {"today", "upcoming"} :
        /\ f # live.activeFilter
        /\ live' = [live EXCEPT !.activeFilter = f,
                                !.assignedClasses = fetchAssignedClasses(timetable, f, now)]
        /\ UNCHANGED <<storeVars, cls, now, host, shown, boardVars, parseVars,
                       forms, clock, authVars, display, classroomVars>>

\* the dashboard receives a notification: the callback it subscribed with runs
DashboardNotified ==
    /\ live.dashPending
    /\ live' = [live EXCEPT !.dashPending = FALSE,
                            !.assignedClasses =
                                fetchAssignedClasses(timetable, live.subscribedFilter, now)]
    /\ UNCHANGED <<storeVars, cls, now, host, shown, boardVars, parseVars,
                   forms, clock, authVars, display, classroomVars>>

\* the public timetable receives a notification
PublicNotified ==
    /\ live.publicPending
    /\ live' = [live EXCEPT !.publicPending = FALSE,
                            !.publicRows = fetchTimetable(timetable)]
    /\ UNCHANGED <<storeVars, cls, now, host, shown, boardVars, parseVars,
                   forms, clock, authVars, display, classroomVars>>

\* the public timetable's refreshInterval fires: fetchTimetable(true)
PublicRefresh ==
    /\ live' = [live EXCEPT !.publicRows = fetchTimetable(timetable)]
    /\ UNCHANGED <<storeVars, cls, now, host, shown, boardVars, parseVars,
                   forms, clock, authVars, display, classroomVars>>

\* the classroom display fetches (its fetch effect runs on every clock tick)
DisplayFetch ==
    /\ live' = [live EXCEPT !.displayRows = fetchTodaysRows(timetable, now)]
    /\ UNCHANGED <<storeVars, cls, now, host, shown, boardVars, parseVars,
                   forms, clock, authVars, display, classroomVars>>


(***************************************************************************)
(* AppRoutes: the session, the role and the route guards.                  *)
(***************************************************************************)
\* the accounts: an admin, two teachers, and an account without a row in teachers
Users == 1..4

\* teachers.role_id of an account's email, 0 when the lookup finds no row
role_id == (1 :> 3) @@ (2 :> 1) @@ (3 :> 2) @@ (4 :> 0)

\* const isAdmin = roleId === 3
isAdmin == roleId = 3

\* const isTeacher = roleId === 1 || roleId === 2
isTeacher == roleId = 1 \/ roleId = 2

\* session && isAdmin ? <Page /> : <Navigate to="/login" />
adminPageRendered == session # 0 /\ isAdmin

\* session && isTeacher ? <Page /> : <Navigate to="/login" />
teacherPageRendered == session # 0 /\ isTeacher

\* AppRoutes mounted with nobody signed in: getSession returned null
SignedOut ==
    /\ session = 0
    /\ roleId = 0
    /\ lookups = {}

\* onAuthStateChange with a session: setSession(session), and the lookup of the
\* role by the user's email is issued
SignIn ==
    \E user \in Users :
        /\ user # session
        /\ session' = user
        /\ lookups' = lookups \cup {user}
        /\ UNCHANGED <<roleId, storeVars, cls, now, host, shown, boardVars, parseVars,
                       forms, clock, live, display, classroomVars>>

\* onAuthStateChange with null: setSession(null); no lookup, roleId is left alone
SignOut ==
    /\ session # 0
    /\ session' = 0
    /\ UNCHANGED <<roleId, lookups, storeVars, cls, now, host, shown, boardVars,
                   parseVars, forms, clock, live, display, classroomVars>>

\* a lookup resolves: if (!error && data?.role_id) setRoleId(data.role_id)
LookupCompletes ==
    \E user \in lookups :
        /\ lookups' = lookups \ {user}
        /\ roleId' = IF role_id[user] # 0 THEN role_id[user] ELSE roleId
        /\ UNCHANGED <<session, storeVars, cls, now, host, shown, boardVars, parseVars,
                       forms, clock, live, display, classroomVars>>


(***************************************************************************)
(* ClassroomDisplayTable: its clock, its refresh timer and its fetches.    *)
(* The two effects depend on fetchClassrooms, a useCallback over           *)
(* [params.building, params.floor, currentTime].                           *)
(***************************************************************************)
\* setInterval(() => setCurrentTime(new Date()), 1000), in seconds
tickSeconds == 1

\* setInterval(() => fetchClassrooms(), 300000), in seconds
refreshSeconds == 300

\* the building and floor of the route
DisplayParams == {<<1, 1>>, <<1, 2>>}

\* the page after its mount: the timers are set and the first fetch has run.
\* refreshElapsed: seconds since refreshTimer was set; fetches: calls of
\* fetchClassrooms; refreshFired: calls made by refreshTimer
Mounted ==
    [currentTime |-> 0, params |-> <<1, 1>>, paramChanges |-> 0,
     refreshElapsed |-> 0, fetches |-> 1, refreshFired |-> 0]

\* a second passes: refreshTimer fires if it has been set for refreshSeconds;
\* timer fires and sets currentTime, fetchClassrooms is a new function, so the
\* timer effect's cleanup clears both intervals and sets them again and the
\* fetch effect calls fetchClassrooms
SecondPasses ==
    LET refreshDue == display.refreshElapsed + tickSeconds >= refreshSeconds
    IN  /\ display.currentTime < MaxSeconds
        /\ display' = [display EXCEPT
               !.currentTime = @ + tickSeconds,
               !.refreshElapsed = 0,
               !.refreshFired = IF refreshDue THEN @ + 1 ELSE @,
               !.fetches = IF refreshDue THEN @ + 2 ELSE @ + 1]
        /\ UNCHANGED <<storeVars, cls, now, host, shown, boardVars, parseVars,
                       forms, clock, live, authVars, classroomVars>>

\* the route changes to another floor: fetchClassrooms is a new function, the
\* effects run again
ParamsChange ==
    \E p \in DisplayParams :
        /\ p # display.params
        /\ display.paramChanges < MaxParamChanges
        /\ display' = [display EXCEPT
               !.params = p,
               !.paramChanges = @ + 1,
               !.refreshElapsed = 0,
               !.fetches = @ + 1]
        /\ UNCHANGED <<storeVars, cls, now, host, shown, boardVars, parseVars,
                       forms, clock, live, authVars, classroomVars>>


(***************************************************************************)
(* ClassroomForm: the rows of public.classrooms and the form's submit.     *)
(* The submissions run one at a time.                                      *)
(***************************************************************************)
RoomNumbers == {"101", "102"}
Floors == 1..MaxFloor

ErrSelect == "Please select both building and floor"
ErrDuplicate == "A classroom with this room number already exists on the selected floor."

NoSubmission ==
    [classroomId |-> 0, roomNumber |-> "", floorId |-> 0, wrote |-> FALSE, error |-> ""]

\* .select('id').eq('room_number', roomNumber).eq('floor_id', floorId).single():
\* the id of the one row, null (0) with error PGRST116 for no row or several rows
existingClassroom(rows, roomNumber, floorId) ==
    LET ids == {id \in DOMAIN rows :
                    rows[id].room_number = roomNumber /\ rows[id].floor_id = floorId}
    IN  IF Cardinality(ids) = 1 THEN CHOOSE id \in ids : TRUE ELSE 0

\* a test that does not look at the row the form is open on
isDuplicate_anyRow(existing, classroomId) ==
    existing # 0

\* existingClassroom && (!classroomId || existingClassroom.id !== classroomId)
isDuplicate(existing, classroomId) ==
    existing # 0 /\ (classroomId = 0 \/ existing # classroomId)

\* ClassroomForm.handleSubmit; classroomId = 0 for a new classroom, readOk tells
\* whether the read of the check succeeds
classroomHandleSubmit(classroomId, buildingId, floorId, roomNumber, readOk) ==
    LET unselected == buildingId = 0 \/ floorId = 0
        existing == existingClassroom(classroomRows, roomNumber, floorId)
        duplicate == isDuplicate(existing, classroomId)
        err == IF unselected THEN ErrSelect
               ELSE IF ~readOk THEN ErrBackend
               ELSE IF duplicate THEN ErrDuplicate
               ELSE ""
        newId == Cardinality(DOMAIN classroomRows) + 1
        row == [room_number |-> roomNumber, floor_id |-> floorId]
    IN  /\ classroomId = 0 => newId <= MaxClassrooms
        /\ unselected => readOk
        /\ classroomLast' = [classroomId |-> classroomId, roomNumber |-> roomNumber,
                             floorId |-> floorId, wrote |-> err = "", error |-> err]
        /\ classroomRows' =
               IF err # "" THEN classroomRows
               ELSE IF classroomId # 0 THEN [classroomRows EXCEPT ![classroomId] = row]
               ELSE classroomRows @@ (newId :> row)
        /\ UNCHANGED <<storeVars, cls, now, host, shown, boardVars, parseVars,
                       forms, clock, live, authVars, display>>

\* the admin adds a classroom
ClassroomAdd ==
    \E buildingId \in {0, 1}, floorId \in {0} \cup Floors, roomNumber \in RoomNumbers,
       readOk \in BOOLEAN :
        classroomHandleSubmit(0, buildingId, floorId, roomNumber, readOk)

\* the admin opens the form on a classroom (fetchClassroom fills the fields),
\* changes some fields and saves
ClassroomEdit ==
    \E classroomId \in DOMAIN classroomRows :
    \E buildingId \in {0, 1}, floorId \in {0} \cup Floors, roomNumber \in RoomNumbers,
       readOk \in BOOLEAN :
        classroomHandleSubmit(classroomId, buildingId, floorId, roomNumber, readOk)

\* nothing outside the booking store is in use
NoApp ==
    /\ forms = NoForms
    /\ clock = NoClock
    /\ live = ViewsOpen
    /\ SignedOut
    /\ display = Mounted
    /\ classroomRows = NoRows
    /\ classroomLast = NoSubmission


(***************************************************************************)
(* Specifications.                                                         *)
(***************************************************************************)
InitStore ==
    /\ timetable = NoRows
    /\ nextId = 1
    /\ last = Outcome("none", 0, 0, TRUE, FALSE, FALSE, "")

\* no room board is open
NoBoard ==
    /\ roomAvailability = [r \in Rooms |-> NoRoom]
    /\ classrooms = [r \in Rooms |->
                        [status |-> "available", classInfo |-> 0, nextClassInfo |-> 0]]
    /\ renders = 0

\* getMinutes has not been called
NotParsed == [called |-> FALSE, threw |-> FALSE, value |-> 0]

NoParse ==
    /\ timeStr = <<>>
    /\ parsed = NotParsed

\* the handlers of the booking store, one at a time; no view is open
Init ==
    /\ InitStore
    /\ cls = Row(1, 0, FmtHM(SlotMinute(0)), FmtHM(SlotMinute(1)), "")
    /\ now = 0
    /\ host = [offset |-> 330, h24 |-> FALSE]
    /\ shown = Render(cls, now, host)
    /\ NoBoard
    /\ NoParse
    /\ NoApp

Next ==
    \/ AdminAdd
    \/ AdminEdit
    \/ TeacherAdd
    \/ CsvUpload
    \/ TeacherEdit
    \/ StatusUpdate
    \/ Delete
    \/ handleCleanupTimetable

Spec == Init /\ [][Next]_vars

\* a booking on display in the three views, from midnight UTC of day 0
InitStatus ==
    /\ InitStore
    /\ cls \in {r \in StoredRows : r.status = ""}
    /\ now = 0
    /\ host \in Hosts
    /\ shown = Render(cls, now, host)
    /\ NoBoard
    /\ NoParse
    /\ NoApp

NextStatus ==
    \/ Tick
    \/ StatusChanged

SpecStatus == InitStatus /\ [][NextStatus]_vars

\* the two room boards open on the bookings of the classrooms, from midnight UTC
\* of day 0
InitRoom ==
    /\ timetable \in RoomTables
    /\ nextId = MaxId + 1
    /\ last = Outcome("none", 0, 0, TRUE, FALSE, FALSE, "")
    /\ cls = Row(1, 0, FmtHM(SlotMinute(0)), FmtHM(SlotMinute(1)), "")
    /\ now = 0
    /\ host \in Hosts
    /\ shown = RenderAll(timetable, now, host)
    /\ roomAvailability = updateRoomAvailability(timetable, selectedDate, now, host)
    /\ classrooms = fetchClassrooms(timetable, now, host)
    /\ renders = 1
    /\ NoParse
    /\ NoApp

NextRoom ==
    \/ RoomTick
    \/ RoomStatusChanged
    \/ Rerender

SpecRoom == InitRoom /\ [][NextRoom]_vars

\* a time string on its way into getMinutes
InitTime ==
    /\ InitStore
    /\ cls = Row(1, 0, FmtHM(SlotMinute(0)), FmtHM(SlotMinute(1)), "")
    /\ now = 0
    /\ host = [offset |-> 330, h24 |-> FALSE]
    /\ shown = Render(cls, now, host)
    /\ NoBoard
    /\ timeStr \in TimeStrings
    /\ parsed = NotParsed
    /\ NoApp

NextTime ==
    \/ Normalize

SpecTime == InitTime /\ [][NextTime]_vars

\* the booking store is empty, and no timetable view, board or parser is in use
InitIdle ==
    /\ InitStore
    /\ cls = Row(1, 0, FmtHM(SlotMinute(0)), FmtHM(SlotMinute(1)), "")
    /\ now = 0
    /\ host = [offset |-> 330, h24 |-> FALSE]
    /\ shown = Render(cls, now, host)
    /\ NoBoard
    /\ NoParse

\* two admins with the form open on a new entry
InitRace ==
    /\ InitIdle
    /\ NoApp

NextRace ==
    \/ SubmitBegin
    \/ CheckRuns
    \/ SubmitEnd

SpecRace == InitRace /\ [][NextRace]_vars

\* the dashboard reads the clock at an instant of the UTC days 0..MaxDay
InitClock ==
    /\ InitStore
    /\ cls = Row(1, 1, FmtHM(SlotMinute(0)), FmtHM(SlotMinute(1)), "")
    /\ now \in 0..((MaxDay + 1) * 1440 - 1)
    /\ host = [offset |-> 330, h24 |-> FALSE]
    /\ shown = [dashboard |-> "", public |-> "", admin |-> ""]
    /\ NoBoard
    /\ NoParse
    /\ NoApp

NextClock ==
    \/ ClockRead

SpecClock == InitClock /\ [][NextClock]_vars

\* the three views open on the teacher's classes
InitLive ==
    /\ InitIdle
    /\ NoApp

NextLive ==
    \/ LiveInsert
    \/ LiveStatusUpdate
    \/ SetActiveFilter
    \/ DashboardNotified
    \/ PublicNotified
    \/ PublicRefresh
    \/ DisplayFetch

\* a queued notification is delivered, and the timers fire again and again
SpecLive ==
    /\ InitLive
    /\ [][NextLive]_vars
    /\ WF_vars(DashboardNotified)
    /\ WF_vars(PublicNotified)
    /\ WF_vars(PublicRefresh)
    /\ WF_vars(DisplayFetch)

InitAuth ==
    /\ InitIdle
    /\ NoApp

NextAuth ==
    \/ SignIn
    \/ SignOut
    \/ LookupCompletes

SpecAuth == InitAuth /\ [][NextAuth]_vars

InitDisplay ==
    /\ InitIdle
    /\ NoApp

NextDisplay ==
    \/ SecondPasses
    \/ ParamsChange

SpecDisplay == InitDisplay /\ [][NextDisplay]_vars

InitClassroom ==
    /\ InitIdle
    /\ NoApp

NextClassroom ==
    \/ ClassroomAdd
    \/ ClassroomEdit

SpecClassroom == InitClassroom /\ [][NextClassroom]_vars


(***************************************************************************)
(* Properties of the availability check.  The properties read the times    *)
(* of a row or of a proposal as slots, by the way the strings were         *)
(* printed, not by the parsing of the code.                                *)
(***************************************************************************)
SlotOf == [t \in FormTimes \cup StoredTimes |->
              CHOOSE k \in Slots : t \in {FmtHM(SlotMinute(k)), FmtHMS(60 * SlotMinute(k))}]

\* the proposals a form can submit for a classroom
Proposals == [classroom : Rooms, date : Dates,
              startTime : FormTimes \cup StoredTimes, endTime : FormTimes \cup StoredTimes]

\* the rows of the proposal's classroom and date, but for the excluded row
Others(p, excluded) ==
    {id \in DOMAIN timetable \ {excluded} :
        timetable[id].classroom_id = p.classroom /\ timetable[id].date = p.date}

\* the proposal and the row share an interior point: s1 < e2 and s2 < e1
Intersects(p, id) ==
    /\ SlotOf[p.startTime] < SlotOf[timetable[id].end_time]
    /\ SlotOf[timetable[id].start_time] < SlotOf[p.endTime]

\* the proposal ends where the row starts, or starts where the row ends
Touches(p, id) ==
    \/ SlotOf[p.endTime] = SlotOf[timetable[id].start_time]
    \/ SlotOf[timetable[id].end_time] = SlotOf[p.startTime]

ProperRow(id) == SlotOf[timetable[id].start_time] < SlotOf[timetable[id].end_time]

Check(p, excluded, readOk) ==
    checkTimeSlotAvailability(timetable, p.classroom, p.startTime, p.endTime, p.date,
                              excluded, readOk)

FormOps == {"handleSubmit", "teacherHandleSubmit"}

\* C1: a proposal [s1,e1) with s1 < e1 that touches a booking [s2,e2), s2 < e2, of
\* its classroom and date at a boundary (e1 = s2 or e2 = s1) and that no booking
\* of that classroom and date overlaps is available: the check, its read having
\* succeeded, returns true.
C1_TouchingIsAvailable ==
    \A p \in Proposals, excluded \in {0} \cup DOMAIN timetable :
        ( /\ SlotOf[p.startTime] < SlotOf[p.endTime]
          /\ \E id \in Others(p, excluded) : ProperRow(id) /\ Touches(p, id)
          /\ \A id \in Others(p, excluded) : ~Intersects(p, id) )
        => Check(p, excluded, TRUE) = TRUE

\* a form has just inserted a booking that touches another booking of its
\* classroom and date, after the check returned true
C1_Witness ==
    /\ last.op \in FormOps /\ last.entryId = 0
    /\ last.reads = 1 /\ last.readOk /\ last.avail /\ last.wrote
    /\ (nextId - 1) \in DOMAIN timetable
    /\ ProperRow(nextId - 1)
    /\ \E id \in DOMAIN timetable \ {nextId - 1} :
          /\ timetable[id].classroom_id = timetable[nextId - 1].classroom_id
          /\ timetable[id].date = timetable[nextId - 1].date
          /\ ProperRow(id)
          /\ \/ timetable[id].start_time = timetable[nextId - 1].end_time
             \/ timetable[id].end_time = timetable[nextId - 1].start_time

\* C2: a proposal that shares an interior point (s1 < e2 and s2 < e1) with a
\* stored booking of its classroom and date, other than the excluded one, is
\* unavailable: the check returns false, whether its read succeeds or fails.
C2_OverlapIsUnavailable ==
    \A p \in Proposals, excluded \in {0} \cup DOMAIN timetable, readOk \in BOOLEAN :
        (\E id \in Others(p, excluded) : Intersects(p, id))
        => Check(p, excluded, readOk) = FALSE

\* a form was refused because the check, its read having succeeded, found an
\* overlapping booking
C2_Witness ==
    /\ last.op \in FormOps
    /\ last.reads = 1 /\ last.readOk /\ ~last.avail /\ ~last.wrote
    /\ last.err = ErrBooked
    /\ \E id \in DOMAIN timetable : ProperRow(id) /\ timetable[id].classroom_id # 0

\* C3: canceled bookings never make the check return false: a proposal that
\* overlaps only canceled bookings of its classroom and date is available.
C3_CanceledNeverBlocks ==
    \A p \in Proposals, excluded \in {0} \cup DOMAIN timetable :
        ( /\ \E id \in Others(p, excluded) : Intersects(p, id)
          /\ \A id \in Others(p, excluded) :
                Intersects(p, id) => timetable[id].status = "canceled" )
        => Check(p, excluded, TRUE) = TRUE


\* the row as a proposal: an edit that changes neither classroom, date nor times
OwnSlot(id) ==
    [classroom |-> timetable[id].classroom_id, date |-> timetable[id].date,
     startTime |-> timetable[id].start_time, endTime |-> timetable[id].end_time]

\* C4: an edit that changes neither classroom, date nor times does not conflict
\* with itself: called with the booking's own id as the excluded id, the check
\* returns true when no other booking overlaps, and false when another booking
\* of the classroom and date overlaps; so does the check the admin form runs
\* when such an edit is submitted.
C4_EditDoesNotConflictWithItself ==
    /\ \A id \in DOMAIN timetable :
          timetable[id].classroom_id # 0 =>
              Check(OwnSlot(id), id, TRUE)
                  = ~(\E o \in Others(OwnSlot(id), id) : Intersects(OwnSlot(id), o))
    /\ ( /\ last.op = "handleSubmit" /\ last.same /\ last.reads = 1 /\ last.readOk
         /\ last.entryId \in DOMAIN timetable )
       => last.avail = ~(\E o \in Others(OwnSlot(last.entryId), last.entryId) :
                            Intersects(OwnSlot(last.entryId), o))

\* the admin form has just saved an unchanged booking, beside another booking of
\* the same classroom and date
C4_Witness ==
    /\ last.op = "handleSubmit" /\ last.same
    /\ last.reads = 1 /\ last.readOk /\ last.avail /\ last.wrote /\ last.err = ""
    /\ last.entryId \in DOMAIN timetable
    /\ ProperRow(last.entryId)
    /\ Others(OwnSlot(last.entryId), last.entryId) # {}

(***************************************************************************)
(* Properties of the handlers.                                             *)
(***************************************************************************)
\* C5: no two bookings of the same classroom and date that are both not canceled
\* have overlapping [startTime, endTime) intervals.
C5_NoDoubleBooking ==
    \A a \in DOMAIN timetable, b \in DOMAIN timetable :
        ( /\ a # b
          /\ timetable[a].classroom_id # 0
          /\ timetable[a].classroom_id = timetable[b].classroom_id
          /\ timetable[a].date = timetable[b].date
          /\ timetable[a].status # "canceled"
          /\ timetable[b].status # "canceled"
          /\ ProperRow(a) /\ ProperRow(b) )
        => ~Intersects(OwnSlot(a), b)

\* a form's availability read has failed
FailedRead == last.op \in FormOps /\ last.reads > 0 /\ ~last.readOk

\* C6: a submission of a booking form whose availability read fails writes
\* nothing to the timetable, and reads once (no retry).
C6_FailedReadBlocks ==
    [][ FailedRead' =>
            /\ timetable' = timetable
            /\ nextId' = nextId
            /\ last'.reads = 1
            /\ ~last'.wrote ]_vars

\* a form was submitted and its availability read failed
C6_Witness ==
    /\ FailedRead
    /\ last.err # ""

\* C7: a failed availability read reaches the caller as an outcome of its own:
\* not the outcome of a conflict (false, 'already booked'), not that of an
\* available slot.
C7_FailedReadIsDistinct ==
    FailedRead => /\ ~(last.avail = FALSE /\ last.err = ErrBooked)
                  /\ ~(last.avail = TRUE)

\* the row a handler has written
Written ==
    IF last.entryId # 0 THEN last.entryId ELSE nextId - 1

\* C8: the admin form, the teacher form and the teacher's edit modal never
\* persist a range whose end is not strictly after its start.
C8_InvalidRangeNeverPersisted ==
    ( /\ last.op \in FormOps \cup {"handleEditClass"}
      /\ last.wrote /\ last.err = ""
      /\ Written \in DOMAIN timetable )
    => ProperRow(Written)


(***************************************************************************)
(* Properties of the status resolvers.                                     *)
(***************************************************************************)
\* the date and the minute of day of the clock in the reference timezone
NowDateIST == (now + 330) \div 1440
NowMinuteIST == (now + 330) % 1440

\* the minute of day of a stored time, by the way it was printed
MinuteOf(t) == SlotMinute(SlotOf[t])

\* the clock is strictly after the end of the booking on display
AfterEnd ==
    \/ NowDateIST > cls.date
    \/ NowDateIST = cls.date /\ NowMinuteIST > MinuteOf(cls.end_time)

\* C9: a booking whose stored status is canceled, rescheduled or delayed resolves
\* to that status at every time, in each of the three resolvers.
C9_StickyOverride ==
    cls.status \in {"canceled", "rescheduled", "delayed"} =>
        /\ shown.dashboard = cls.status
        /\ shown.public = cls.status
        /\ shown.admin = cls.status

\* C10: a booking whose stored status is ongoing resolves to ended, not ongoing,
\* once the clock is strictly after its end time, in each of the three resolvers.
C10_OngoingDecays ==
    (cls.status = "ongoing" /\ AfterEnd) =>
        /\ shown.dashboard = "ended"
        /\ shown.public = "ended"
        /\ shown.admin = "ended"

\* the booking on display is dated today in the reference timezone and carries
\* no manual status
TodayNoStatus == cls.status = "" /\ cls.date = NowDateIST

\* C11: a booking dated today with no manual status resolves to ongoing at every
\* now with startTime <= now <= endTime, both bounds inclusive, compared as
\* minutes since midnight.
C11_OngoingWithinWindow ==
    ( /\ TodayNoStatus
      /\ MinuteOf(cls.start_time) <= NowMinuteIST
      /\ NowMinuteIST <= MinuteOf(cls.end_time) )
    => shown.dashboard = "ongoing"

\* C12: a booking dated today with no manual status resolves to ended if and
\* only if now is strictly after endTime, compared as minutes since midnight.
C12_EndedIffAfterEnd ==
    TodayNoStatus =>
        /\ shown.dashboard = "ended" <=> NowMinuteIST > MinuteOf(cls.end_time)
        /\ shown.admin = "ended" <=> NowMinuteIST > MinuteOf(cls.end_time)

\* C13: a booking with no sticky manual status dated strictly before today in
\* the reference timezone resolves to ended at every instant, and a booking
\* dated today in the reference timezone is not ended for being past its date.
C13_PastDateIsEnded ==
    /\ (cls.status \notin {"canceled", "rescheduled", "delayed"} /\ cls.date < NowDateIST)
       => shown.dashboard = "ended"
    /\ (TodayNoStatus /\ NowMinuteIST <= MinuteOf(cls.end_time))
       => shown.dashboard # "ended"


(***************************************************************************)
(* Properties of the room boards.                                          *)
(***************************************************************************)
\* the bookings of a room on the date the board shows
RoomBookings(r) ==
    {id \in DOMAIN timetable :
        timetable[id].classroom_id = r /\ timetable[id].date = selectedDate}

\* the time window of the booking contains the clock (reference timezone,
\* minutes, both ends inclusive)
ContainsNow(id) ==
    /\ timetable[id].date = NowDateIST
    /\ MinuteOf(timetable[id].start_time) <= NowMinuteIST
    /\ NowMinuteIST <= MinuteOf(timetable[id].end_time)

\* C14: a canceled booking never holds a room occupied: when the only booking of
\* the room whose time window contains now is canceled, the room's isAvailable
\* flag is true.
C14_CanceledFreesRoom ==
    \A r \in Rooms :
        LET current == {id \in RoomBookings(r) : ContainsNow(id)}
        IN  ( /\ Cardinality(current) = 1
              /\ \A id \in current : timetable[id].status = "canceled" )
            => roomAvailability[r].isAvailable = TRUE

\* C15: the room's isAvailable flag is false if and only if some booking of the
\* room on the date has resolved status ongoing (canceled, delayed, rescheduled
\* and ended bookings never make it false).
C15_OccupiedIffOngoing ==
    \A r \in Rooms :
        roomAvailability[r].isAvailable = FALSE
            <=> \E id \in RoomBookings(r) : shown[id].public = "ongoing"

\* the bookings the next booking may be: not canceled, starting strictly after
\* now, and none of them starting earlier
NextCandidates(r) ==
    LET later == {id \in RoomBookings(r) :
                     /\ timetable[id].status # "canceled"
                     /\ MinuteOf(timetable[id].start_time) > NowMinuteIST}
    IN  {id \in later : \A o \in later :
            MinuteOf(timetable[id].start_time) <= MinuteOf(timetable[o].start_time)}

\* the next booking is the earliest one of the candidates, or absent without one
RightNext(r, next) ==
    IF NextCandidates(r) = {} THEN next = 0 ELSE next \in NextCandidates(r)

\* C16: when the current booking of a room resolves to canceled, rescheduled,
\* delayed or ended, the next booking shown is the not-canceled booking of the
\* room and date with the smallest startTime strictly after now, and none is
\* shown when there is no such booking; on both room boards.
C16_NextBooking ==
    \A r \in Rooms :
        /\ ( /\ roomAvailability[r].currentClass # 0
             /\ shown[roomAvailability[r].currentClass].public
                    \in {"canceled", "rescheduled", "delayed", "ended"} )
           => RightNext(r, roomAvailability[r].nextClass)
        /\ classrooms[r].status \in {"canceled", "rescheduled", "delayed", "ended"}
           => RightNext(r, classrooms[r].nextClassInfo)


C18_EndedAndCanceledAreTerminal ==
    [][ /\ cls.status = "canceled" => shown'.dashboard # "ongoing"
        /\ shown.dashboard = "ended" => shown'.dashboard = "ended" ]_vars


(***************************************************************************)
(* Properties of the time normalization.                                   *)
(***************************************************************************)
\* two decimal digits that print a number of 0..max
TwoDigits(s, i, max) ==
    /\ s[i] \in 48..57 /\ s[i + 1] \in 48..57
    /\ (s[i] - 48) * 10 + (s[i + 1] - 48) <= max

\* 'HH:MM' or 'HH:MM:SS' with HH in 00..23, MM and SS in 00..59
WellFormed(s) ==
    /\ Len(s) \in {5, 8}
    /\ TwoDigits(s, 1, 23) /\ s[3] = 58 /\ TwoDigits(s, 4, 59)
    /\ Len(s) = 8 => s[6] = 58 /\ TwoDigits(s, 7, 59)

\* C19: normalizing a malformed time string fails with an error (it returns
\* neither a number nor NaN), and normalizing a well-formed one returns an
\* integer in [0, 1439].
C19_MalformedTimeFails ==
    parsed.called =>
        IF WellFormed(timeStr)
        THEN ~parsed.threw /\ parsed.value \in 0..1439
        ELSE parsed.threw


(***************************************************************************)
(* Properties of the clock.                                                *)
(***************************************************************************)
\* C20: the statuses the views resolve depend on the UTC instant only, not on
\* the timezone of the host: a host that differs from the one on display in its
\* timezone offset alone resolves the same statuses for the same booking at
\* the same instant.
C20_HostTimezoneIndependent ==
    \A h \in Hosts :
        h.h24 = host.h24 => Render(cls, now, h) = shown

(***************************************************************************)
(* Properties of the forms that run at the same time.                      *)
(***************************************************************************)
\* caller c ran handleSubmit to its end in this step, with a check that returned true
InsertsAfterCheck(c) ==
    /\ forms[c].pc = "checked"
    /\ forms[c].isAvailable
    /\ forms'[c].pc = "done"

\* the rows a and b are of the same classroom and date, and their ranges intersect
RowsOverlap(a, b) ==
    /\ a # b
    /\ timetable[a].classroom_id # 0
    /\ timetable[a].classroom_id = timetable[b].classroom_id
    /\ timetable[a].date = timetable[b].date
    /\ timetable[a].status # "canceled"
    /\ timetable[b].status # "canceled"
    /\ SlotOf[timetable[a].start_time] < SlotOf[timetable[b].end_time]
    /\ SlotOf[timetable[b].start_time] < SlotOf[timetable[a].end_time]

\* C21: nothing between the check and the insert detects a conflict: once a
\* caller's check has returned true, its insert succeeds and stores the row,
\* whatever another caller has inserted in the meantime
C21_RaceIsUndetected ==
    [][\A c \in Callers :
          InsertsAfterCheck(c) =>
              /\ forms'[c].error = ""
              /\ forms'[c].success # ""
              /\ nextId \in DOMAIN timetable'
              /\ timetable'[nextId] =
                     Row(forms[c].classroomId, forms[c].selectedDate,
                         forms[c].startTime, forms[c].endTime, "")]_vars

\* two callers, each with a check that returned true and a successful insert,
\* have left two overlapping bookings that are not canceled
C21_Witness ==
    /\ \A c \in Callers :
          forms[c].pc = "done" /\ forms[c].isAvailable /\ forms[c].success # ""
    /\ \E a, b \in DOMAIN timetable : RowsOverlap(a, b)

\* the handlers that create a booking or write its classroom, date or times
BookingWriters ==
    {"handleSubmit", "teacherHandleSubmit", "handleEditClass", "processCSVUpload"}

\* C22: every write that creates a booking or changes its classroom, date or
\* times was preceded, in the same operation, by an availability check that
\* returned true.
C22_WriteFollowsCheck ==
    ( /\ last.op \in BookingWriters
      /\ last.wrote /\ last.err = "" )
    => (last.reads > 0 /\ last.avail)

\* the order of the resolved statuses of a day
StatusRank(status) ==
    CASE status = "scheduled" -> 0
      [] status = "ongoing" -> 1
      [] status = "ended" -> 2
      [] OTHER -> 3

\* C23: for a booking dated today with no manual status, as the clock advances
\* through the day the resolved status only moves forward along scheduled,
\* ongoing, ended, and it is scheduled at every now before startTime; on the
\* teacher dashboard, in a browser in the reference timezone.
C23_StatusMovesForward ==
    [][ ( /\ host.offset = AsiaKolkata
          /\ TodayNoStatus /\ TodayNoStatus'
          /\ now' > now )
        => /\ StatusRank(shown'.dashboard) >= StatusRank(shown.dashboard)
           /\ NowMinuteIST' < MinuteOf(cls.start_time) => shown'.dashboard = "scheduled"
      ]_vars

\* C24: the comparisons of wall-clock times agree with the comparison of minutes
\* since midnight: a booking dated today with no manual status, whose end is
\* after its start, is current at the exact minute of its startTime; on the
\* admin timetable page, in a browser in the reference timezone.
C24_CurrentAtStartMinute ==
    ( /\ host.offset = AsiaKolkata
      /\ TodayNoStatus
      /\ MinuteOf(cls.start_time) < MinuteOf(cls.end_time)
      /\ NowMinuteIST = MinuteOf(cls.start_time) )
    => shown.admin = "ongoing"

(***************************************************************************)
(* Properties of the reference clock.                                      *)
(***************************************************************************)
\* the minute of the UTC day of the instant now
utcMinuteOfDay == now % 1440

\* C25: the reference clock that isClassPassed computes is UTC+330 minutes: its
\* minute of day is (utcMinuteOfDay + 330) mod 1440, within 0..1439, and its
\* date is the UTC date plus one exactly when utcMinuteOfDay >= 1110; both
\* are taken from the same shifted instant.
C25_ReferenceClockIsUtcPlus330 ==
    clock.called =>
        /\ clock.currentTimeInMinutes = (utcMinuteOfDay + 330) % 1440
        /\ clock.currentTimeInMinutes \in 0..1439
        /\ clock.todayIST = (now \div 1440) + (IF utcMinuteOfDay >= 1110 THEN 1 ELSE 0)
        /\ clock.todayIST * 1440 + clock.currentTimeInMinutes = now + 330

\* the clock was read in the part of the UTC day in which the date in the
\* reference timezone is already the next one
C25_Witness ==
    /\ clock.called
    /\ utcMinuteOfDay >= 1110
    /\ clock.todayIST = (now \div 1440) + 1

(***************************************************************************)
(* Properties of the open views.                                           *)
(***************************************************************************)
\* the dashboard shows the rows of its active filter as the table holds them
DashboardFresh ==
    live.assignedClasses = fetchAssignedClasses(timetable, live.activeFilter, now)

\* the public timetable shows the rows of its selected date as the table holds them
PublicFresh ==
    live.publicRows = fetchTimetable(timetable)

\* the classroom display shows today's rows as the table holds them
DisplayFresh ==
    live.displayRows = fetchTodaysRows(timetable, now)

\* C26: every change to a booking row or to its status is eventually reflected
\* in each open view (teacher dashboard, public timetable, classroom display),
\* given that notifications and timers are eventually delivered.
C26_ChangesReachViews ==
    /\ [](~DashboardFresh => <>DashboardFresh)
    /\ [](~PublicFresh => <>PublicFresh)
    /\ [](~DisplayFresh => <>DisplayFresh)

(***************************************************************************)
(* Properties of the availability check as a query.                        *)
(***************************************************************************)
\* the state of a form that handleSubmit and the user set
FormState(f) ==
    <<f.classroomId, f.selectedDate, f.startTime, f.endTime,
      f.loading, f.error, f.success>>

\* checkTimeSlotAvailability ran for caller c in this step
CheckRan(c) ==
    forms[c].pc = "checking" /\ forms'[c].pc = "checked"

\* C27: checkTimeSlotAvailability is a pure query: whatever it returns, a call
\* leaves the stored bookings and their statuses as they were and changes no
\* state of the form.
C27_CheckIsPureQuery ==
    [][\A c \in Callers :
          CheckRan(c) =>
              /\ timetable' = timetable
              /\ nextId' = nextId
              /\ FormState(forms'[c]) = FormState(forms[c])
              /\ \A d \in Callers \ {c} : forms'[d] = forms[d]]_vars

\* a check has returned false on a table that holds a booking, and the form
\* still shows no error
C27_Witness ==
    \E c \in Callers :
        /\ forms[c].pc = "checked"
        /\ ~forms[c].isAvailable
        /\ forms[c].error = ""
        /\ timetable # NoRows

(***************************************************************************)
(* Properties of the route guards.                                         *)
(***************************************************************************)
\* C28: the role the route guards use belongs to the user of the current
\* session: an admin-only page is rendered only if there is a session and the
\* current user's role_id is 3, a teacher-only page only if it is 1 or 2.
C28_RoleBelongsToSession ==
    /\ adminPageRendered => (session # 0 /\ role_id[session] = 3)
    /\ teacherPageRendered => (session # 0 /\ role_id[session] \in {1, 2})

(***************************************************************************)
(* Properties of the classroom display's timers.                           *)
(***************************************************************************)
\* the clock ticked in this step, the route stayed, and the refresh timer was
\* not yet due
TickAlone ==
    /\ display'.currentTime = display.currentTime + tickSeconds
    /\ display'.params = display.params
    /\ display.refreshElapsed + tickSeconds < refreshSeconds

\* C29: a tick of the 1-second clock alone triggers no fetch and neither
\* cancels nor restarts the 5-minute refresh timer, which goes on counting.
C29_TickLeavesRefreshAlone ==
    [][TickAlone =>
          /\ display'.fetches = display.fetches
          /\ display'.refreshElapsed = display.refreshElapsed + tickSeconds]_vars

(***************************************************************************)
(* Properties of the classroom form.                                       *)
(***************************************************************************)
\* no two classrooms have the same room_number on the same floor
NoDuplicateClassrooms ==
    \A a, b \in DOMAIN classroomRows :
        ( /\ classroomRows[a].room_number = classroomRows[b].room_number
          /\ classroomRows[a].floor_id = classroomRows[b].floor_id ) => a = b

\* the submission of this step asks for a room number and floor that another
\* classroom holds
WouldDuplicate ==
    \E id \in DOMAIN classroomRows :
        /\ id # classroomLast'.classroomId
        /\ classroomRows[id].room_number = classroomLast'.roomNumber
        /\ classroomRows[id].floor_id = classroomLast'.floorId

\* the submission of this step saves a classroom with its own room number and floor
SavesUnchanged ==
    /\ classroomLast'.classroomId \in DOMAIN classroomRows
    /\ classroomRows[classroomLast'.classroomId] =
           [room_number |-> classroomLast'.roomNumber, floor_id |-> classroomLast'.floorId]

\* a submission ran in this step
Submitted == classroomLast'.roomNumber # "" /\ <<classroomRows, classroomLast>>' # <<classroomRows, classroomLast>>

\* C30: with the submissions of the classroom form one at a time, no two
\* classrooms have the same room_number on the same floor; an add or edit that
\* would create a duplicate fails with an error and writes nothing; saving a
\* classroom without a change of its room number and floor succeeds (when a
\* building is selected and the read of the check succeeds).
C30_UniqueRoomPerFloor ==
    /\ []NoDuplicateClassrooms
    /\ [][Submitted =>
            /\ WouldDuplicate =>
                   /\ classroomLast'.error # ""
                   /\ ~classroomLast'.wrote
                   /\ classroomRows' = classroomRows
            /\ (SavesUnchanged /\ classroomLast'.error \notin {ErrSelect, ErrBackend}) =>
                   /\ classroomLast'.error = ""
                   /\ classroomRows' = classroomRows]_vars

\* an edit of a classroom to the room number and floor of another classroom was
\* refused, and the table holds the two classrooms as before
C30_Witness ==
    /\ Cardinality(DOMAIN classroomRows) >= 2
    /\ classroomLast.error = ErrDuplicate
    /\ classroomLast.classroomId \in DOMAIN classroomRows
    /\ ~classroomLast.wrote

====
